---- MODULE Spec2Model ----
(***************************************************************************)
(* Model of the vocab-bot scheduling engine: the SQLite tables words and   *)
(* mistakes (db.py), the interval table and its override file (db.py),     *)
(* the per-user session dictionaries and the Telegram / sync handlers      *)
(* (main.py).                                                              *)
(*                                                                         *)
(* Conventions                                                             *)
(*   - SQL NULL / Python None is the empty tuple <<>>, a present value x   *)
(*     is the one-element tuple <<x>>.                                     *)
(*   - Timestamps are unix seconds.  A millisecond timestamp is kept in    *)
(*     mixed radix, [s |-> seconds, r |-> 0..999], standing for the        *)
(*     integer s * 1000 + r (Python integers do not overflow, 32-bit       *)
(*     model integers would).                                              *)
(*   - The db.py coroutines contain no suspending await, so a handler      *)
(*     runs atomically up to its first network call.                       *)
(***************************************************************************)
EXTENDS Integers, Sequences, FiniteSets, TLC

(* ------------------------------ bounds --------------------------------- *)

\* number of /sync/words requests with a payload of the spreadsheet's own
\* making in one behaviour
MaxSyncs == 1
\* highest value of the words AUTOINCREMENT counter that is explored
MaxWordId == 4
\* number of answers (verdicts and corrections) applied in one behaviour
MaxAnswers == 2
\* wall clock at process start (unix seconds)
StartTime == 1700000000

\* cards of the large deck beyond the window of the nearest-upcoming query
DeckExtra == 2

(* --------------------------- input domains ----------------------------- *)

NULL == <<>>
Some(x) == <<x>>

\* Telegram user ids: the allowed one and a stranger
UserIds == {518129411, 7}
\* sheet rows of the spreadsheet
SheetRows == {2, 3}
\* the texts of each sheet row: question, answer, example
Vocabulary ==
    [row \in SheetRows |->
        IF row = 2
        THEN [question |-> "der Hund", answer |-> "dog", example |-> NULL]
        ELSE [question |-> "die Katze", answer |-> "cat",
              example |-> Some("Die Katze schlaeft.")]]
\* the mutable columns of a sheet row: progress (0..12, the card data
\* model), last_success_ts_ms and mistakes_count (None is stored as 0, like 0)
Columns(progress, last_success_ts_ms, mistakes_count) ==
    [progress |-> progress, last_success_ts_ms |-> last_success_ts_ms,
     mistakes_count |-> mistakes_count]
\* a card never answered
FreshColumns == Columns(0, NULL, 0)
\* a millisecond timestamp one minute before process start
PastMs == [s |-> StartTime - 60, r |-> 250]
\* readings of the wall clock: process start, and a day and a minute later
ClockInputs == {StartTime, StartTime + 86460}

Range(s) == {s[i] : i \in DOMAIN s}

(* --------------------------- interval table ---------------------------- *)

DEFAULT_LEVEL_TO_MINUTES ==
    [lvl \in 1..12 |->
        CASE lvl = 1 -> 1
          [] lvl = 2 -> 30
          [] lvl = 3 -> 240
          [] lvl = 4 -> 1440
          [] lvl = 5 -> 2880
          [] lvl = 6 -> 5760
          [] lvl = 7 -> 11520
          [] lvl = 8 -> 23040
          [] lvl = 9 -> 46080
          [] lvl = 10 -> 92160
          [] lvl = 11 -> 138240
          [] lvl = 12 -> 213120]

\* what json.load gives for a value of the file: an integer, a float (kept
\* in tenths: JsonFloat(27) is 2.7), the float Infinity, a string (the
\* sequence of its characters) or null
JsonInt(n) == [type |-> "int", num |-> n, text |-> << >>]
JsonFloat(tenths) == [type |-> "float", num |-> tenths, text |-> << >>]
JsonInfinity == [type |-> "inf", num |-> 0, text |-> << >>]
JsonStr(chars) == [type |-> "str", num |-> 0, text |-> chars]
JsonNull == [type |-> "null", num |-> 0, text |-> << >>]

\* the outcome of a conversion: a value, or the exception raised
Returned(n) == [raised |-> "", value |-> n]
Raised(exception) == [raised |-> exception, value |-> 0]

\* value of a decimal digit, -1 for any other character
DigitOf(c) ==
    CASE c = "0" -> 0 [] c = "1" -> 1 [] c = "2" -> 2 [] c = "3" -> 3
      [] c = "4" -> 4 [] c = "5" -> 5 [] c = "6" -> 6 [] c = "7" -> 7
      [] c = "8" -> 8 [] c = "9" -> 9 [] OTHER -> -1

\* 10 ** k, for the lengths of the numbers written in the file
Pow10(k) ==
    CASE k = 0 -> 1 [] k = 1 -> 10 [] k = 2 -> 100 [] k = 3 -> 1000
      [] k = 4 -> 10000 [] k = 5 -> 100000 [] k = 6 -> 1000000
      [] k = 7 -> 10000000 [] k = 8 -> 100000000 [] OTHER -> 1000000000

\* the number a sequence of decimal digits writes: the one whose digits,
\* with leading zeros, are those of the sequence
DigitsValue(chars) ==
    CHOOSE n \in 0..(Pow10(Len(chars)) - 1) :
        \A i \in DOMAIN chars :
            (n \div Pow10(Len(chars) - i)) % 10 = DigitOf(chars[i])

\* str.strip() of blanks
Strip(chars) ==
    LET inked == {i \in DOMAIN chars : chars[i] # " "}
    IN  IF inked = {} THEN << >>
        ELSE SubSeq(chars,
                    CHOOSE i \in inked : \A j \in inked : i <= j,
                    CHOOSE i \in inked : \A j \in inked : j <= i)

\* the sign and the digits of a stripped string
SignedDigits(s) ==
    IF s # << >> /\ s[1] \in {"+", "-"}
    THEN [negative |-> s[1] = "-", digits |-> Tail(s)]
    ELSE [negative |-> FALSE, digits |-> s]

\* the integer a sign and a sequence of characters write, if they are digits
SignedValue(sd) ==
    IF sd.digits # << >> /\ \A i \in DOMAIN sd.digits : DigitOf(sd.digits[i]) >= 0
    THEN Returned((IF sd.negative THEN -1 ELSE 1) * DigitsValue(sd.digits))
    ELSE Raised("ValueError")

\* int(s) of a string: blanks around it, an optional sign, decimal digits
IntOfStr(chars) == SignedValue(SignedDigits(Strip(chars)))

\* int(v) of a JSON value: a float is cut towards zero
py_int(v) ==
    CASE v.type = "int" -> Returned(v.num)
      [] v.type = "float" ->
            Returned(IF v.num >= 0 THEN v.num \div 10
                     ELSE 0 - ((0 - v.num) \div 10))
      [] v.type = "inf" -> Raised("OverflowError")
      [] v.type = "str" -> IntOfStr(v.text)
      [] OTHER -> Raised("TypeError")

\* the character of a decimal digit
DigitChar(d) ==
    CASE d = 0 -> "0" [] d = 1 -> "1" [] d = 2 -> "2" [] d = 3 -> "3"
      [] d = 4 -> "4" [] d = 5 -> "5" [] d = 6 -> "6" [] d = 7 -> "7"
      [] d = 8 -> "8" [] OTHER -> "9"

\* str(n) of an integer n >= 0, as json.dump writes a key
DecimalString(n) ==
    LET len == CHOOSE k \in 1..9 :
                    /\ n < Pow10(k)
                    /\ k = 1 \/ n >= Pow10(k - 1)
    IN  [i \in 1..len |-> DigitChar((n \div Pow10(len - i)) % 10)]

\* an item of the JSON object: its key (the characters of the string) and
\* its value
JsonItem(key, value) == [key |-> key, value |-> value]

\* the file INTERVALS_PATH: absent, or a JSON object, the sequence of its
\* items in the order of data.items()
NoIntervalsFile == [kind |-> "missing", data |-> << >>]
JsonIntervalsFile(d) == [kind |-> "json", data |-> d]

\* the conversions the loop of load_intervals_from_file makes for each item:
\* lvl = int(k), minutes = int(v)
ConvertedItems(data) ==
    [i \in DOMAIN data |->
        [lvl |-> IntOfStr(data[i].key), minutes |-> py_int(data[i].value)]]

\* the items the loop puts into new_map: both conversions succeed, the level
\* is in 1..12, the minutes are not negative
AcceptedItems(converted) ==
    {i \in DOMAIN converted :
        /\ converted[i].lvl.raised = "" /\ converted[i].minutes.raised = ""
        /\ 1 <= converted[i].lvl.value /\ converted[i].lvl.value <= 12
        /\ ~(converted[i].minutes.value < 0)}

\* an item whose conversion raises an exception the loop does not catch
\* (neither TypeError nor ValueError); int(v) is reached only after int(k)
LoopRaises(converted) ==
    \E i \in DOMAIN converted :
        /\ converted[i].lvl.raised = ""
        /\ converted[i].minutes.raised \notin {"", "TypeError", "ValueError"}

\* new_map after the loop: for each level the minutes of the last accepted
\* item of that level
NewMap(converted, accepted) ==
    [lvl \in {converted[i].lvl.value : i \in accepted} |->
        converted[CHOOSE i \in accepted :
                    /\ converted[i].lvl.value = lvl
                    /\ \A j \in accepted :
                            converted[j].lvl.value = lvl => j <= i
                 ].minutes.value]

\* what the try block of load_intervals_from_file leaves in
\* _LEVEL_TO_MINUTES, given the conversions of the items
MergedTable(new_map, raises, mem) ==
    IF raises THEN mem
    ELSE IF DOMAIN new_map # {}
    THEN [lvl \in 1..12 |-> IF lvl \in DOMAIN new_map THEN new_map[lvl]
                            ELSE DEFAULT_LEVEL_TO_MINUTES[lvl]]
    ELSE DEFAULT_LEVEL_TO_MINUTES

\* the table a JSON object gives
TableOfItems(converted, mem) ==
    MergedTable(NewMap(converted, AcceptedItems(converted)),
                LoopRaises(converted), mem)

\* load_intervals_from_file: the new value of _LEVEL_TO_MINUTES
load_intervals_from_file(file, mem) ==
    IF file.kind = "missing" THEN DEFAULT_LEVEL_TO_MINUTES
    ELSE IF file.kind = "json"
    THEN TableOfItems(ConvertedItems(file.data), mem)
    ELSE mem

\* dict.get(key, default) on the in-memory table
TableGet(table, key, default) ==
    IF key \in DOMAIN table THEN table[key] ELSE default

\* progress_to_minutes, given the table the load at its first line produced
progress_to_minutes(table, progress) ==
    IF progress <= 0 THEN 0
    ELSE IF progress >= 12 THEN TableGet(table, 12, 0)
    ELSE TableGet(table, progress, TableGet(table, 12, 0))

\* get_intervals_table: level -> minutes for the levels 0..12; every lookup
\* reloads the same file, so all of them read the table of the first load
get_intervals_table(table) ==
    [level \in 0..12 |-> progress_to_minutes(table, level)]

\* faulty variant of compute_next_due_ts: the delay in minutes is added to a
\* timestamp in seconds without the factor 60
compute_next_due_ts_in_minutes(table, last_success_ts, progress, t) ==
    LET base == IF last_success_ts # NULL THEN last_success_ts[1] ELSE t
    IN  base + progress_to_minutes(table, progress)

\* compute_next_due_ts; t is the wall clock, used when last_success_ts is None
compute_next_due_ts(table, last_success_ts, progress, t) ==
    LET base == IF last_success_ts # NULL THEN last_success_ts[1] ELSE t
    IN  base + progress_to_minutes(table, progress) * 60

(* ------------------------------- state --------------------------------- *)

VARIABLES
    words,              \* table words, rows in id order
    words_seq,          \* sqlite_sequence of words: the last id handed out
    mistakes,           \* table mistakes, rows in id order
    intervals_file,     \* the file INTERVALS_PATH
    level_to_minutes,   \* the global _LEVEL_TO_MINUTES
    user_last_word,     \* dict user id -> word id
    user_current_word,  \* dict user id -> word id
    now,                \* wall clock, int(time.time())
    syncs,              \* /sync/words requests of the spreadsheet so far
    answers,            \* answers applied so far
    ret,                \* what the last handler did and answered
    tasks               \* handlers of answer buttons the event loop has
                        \* started, in the order of their start

vars == <<words, words_seq, mistakes, intervals_file, level_to_minutes,
          user_last_word, user_current_word, now, syncs, answers, ret, tasks>>

(* ------------------------------ db.py ---------------------------------- *)

HasWord(ws, word_id) == \E i \in DOMAIN ws : ws[i].id = word_id

\* SELECT * FROM words WHERE id = ? ; fetchone()
get_word_by_id(ws, word_id) ==
    IF HasWord(ws, word_id)
    THEN Some(ws[CHOOSE i \in DOMAIN ws : ws[i].id = word_id])
    ELSE NULL

\* faulty variant of IsDue: a card is due only after its due time has passed
IsDue_after(w, t) == w.next_due_ts = NULL \/ w.next_due_ts[1] < t

\* WHERE next_due_ts IS NULL OR next_due_ts <= now
IsDue(w, t) == w.next_due_ts = NULL \/ w.next_due_ts[1] <= t

\* LIMIT of the nearest-upcoming query of get_next_word
UPCOMING_LIMIT == 100

\* faulty variant of UpcomingWindow: the query without its LIMIT
UpcomingWindow_unlimited(ws) == {w \in Range(ws) : w.next_due_ts # NULL}

\* rows ORDER BY next_due_ts ASC LIMIT 100 may return (ties in any order)
UpcomingWindow(ws) ==
    LET scheduled == {w \in Range(ws) : w.next_due_ts # NULL}
    IN  {w \in scheduled :
            Cardinality({v \in scheduled : v.next_due_ts[1] < w.next_due_ts[1]})
                < UPCOMING_LIMIT}

\* faulty variant of get_next_word: only the first query, no fallback to the
\* nearest upcoming card
get_next_word_due_only(ws, t) ==
    LET due == {w \in Range(ws) : IsDue(w, t)}
    IN  IF due # {} THEN {Some(w) : w \in due} ELSE {NULL}

\* get_next_word: the rows (or None) the call may return at clock t
get_next_word(ws, t) ==
    LET due == {w \in Range(ws) : IsDue(w, t)}
    IN  IF due # {} THEN {Some(w) : w \in due}
        ELSE IF UpcomingWindow(ws) # {} THEN {Some(w) : w \in UpcomingWindow(ws)}
        ELSE IF Range(ws) # {} THEN {Some(w) : w \in Range(ws)}
        ELSE {NULL}

\* get_due_count
get_due_count(ws, t) == Cardinality({i \in DOMAIN ws : IsDue(ws[i], t)})

\* progress written by increment_progress_and_update_due
IncrementedProgress(progress) == progress + 1

\* increment_progress_and_update_due: new table, new _LEVEL_TO_MINUTES, result
increment_progress_and_update_due(ws, file, mem, word_id, t) ==
    LET row == get_word_by_id(ws, word_id)
    IN  IF row = NULL THEN [words |-> ws, mem |-> mem, result |-> 0]
        ELSE LET progress == IncrementedProgress(row[1].progress)
                 table == load_intervals_from_file(file, mem)
                 next_due == compute_next_due_ts(table, Some(t), progress, t)
             IN  [words |-> [i \in DOMAIN ws |->
                        IF ws[i].id = word_id
                        THEN [ws[i] EXCEPT !.progress = progress,
                                           !.last_success_ts = Some(t),
                                           !.next_due_ts = Some(next_due)]
                        ELSE ws[i]],
                  mem |-> table,
                  result |-> progress]

\* faulty variant of DecrementStep: one level whatever the progress
DecrementStep_single(current) == 1

\* step of decrement_progress
DecrementStep(current) == IF current > 6 THEN 2 ELSE 1

\* new_progress of decrement_progress
DecrementedProgress(current) ==
    LET d == current - DecrementStep(current)
    IN  IF d > 0 THEN d ELSE 0

\* faulty variant of DefersCard: every card that stays above level 0 is deferred
DefersCard_any(current, new_progress) == new_progress > 0

\* faulty variant of DefersCard: the other policy, every failed card is reset
\* and due at once
DefersCard_never(current, new_progress) == FALSE

\* the branch of decrement_progress that defers the card by 24 hours
DefersCard(current, new_progress) == current > 6 /\ new_progress > 0

\* decrement_progress: new table, new _LEVEL_TO_MINUTES, result
decrement_progress(ws, file, mem, word_id, t) ==
    LET row == get_word_by_id(ws, word_id)
    IN  IF row = NULL THEN [words |-> ws, mem |-> mem, result |-> 0]
        ELSE LET current == row[1].progress
                 new_progress == DecrementedProgress(current)
                 defer == DefersCard(current, new_progress)
                 table == load_intervals_from_file(file, mem)
                 target == t + 24 * 60 * 60
                 base_ts == target - progress_to_minutes(table, new_progress) * 60
             IN  [words |-> [i \in DOMAIN ws |->
                        IF ws[i].id = word_id
                        THEN [ws[i] EXCEPT
                                !.progress = new_progress,
                                !.last_success_ts = IF defer THEN Some(base_ts) ELSE NULL,
                                !.next_due_ts = IF defer THEN Some(target) ELSE Some(t)]
                        ELSE ws[i]],
                  mem |-> IF defer THEN table ELSE mem,
                  result |-> new_progress]

\* faulty variant of BumpedMistakesCount: the counter is lowered
BumpedMistakesCount_down(count) == count - 1

\* faulty variant of BumpedMistakesCount: the counter is written back unchanged
BumpedMistakesCount_same(count) == count

\* mistakes_count written by log_mistake
BumpedMistakesCount(count) == count + 1

\* faulty variant of log_mistake: the new row replaces the rows the table
\* holds for the same question and answer
log_mistake_latest_only(ws, ms, user_id, word_id, t) ==
    LET row == get_word_by_id(ws, word_id)
    IN  IF row = NULL THEN [words |-> ws, mistakes |-> ms]
        ELSE [words |-> [i \in DOMAIN ws |->
                    IF ws[i].id = word_id
                    THEN [ws[i] EXCEPT !.mistakes_count = BumpedMistakesCount(@)]
                    ELSE ws[i]],
              mistakes |-> Append(SelectSeq(ms, LAMBDA m :
                                        m.question # row[1].question
                                            \/ m.answer # row[1].answer),
                                  [user_id |-> user_id,
                                   question |-> row[1].question,
                                   answer |-> row[1].answer,
                                   ts |-> t])]

\* faulty variant of log_mistake: without the check of the row, a mistake on
\* an id the table does not hold is logged with empty texts
log_mistake_unchecked(ws, ms, user_id, word_id, t) ==
    LET row == get_word_by_id(ws, word_id)
    IN  [words |-> [i \in DOMAIN ws |->
                    IF ws[i].id = word_id
                    THEN [ws[i] EXCEPT !.mistakes_count = BumpedMistakesCount(@)]
                    ELSE ws[i]],
         mistakes |-> Append(ms, [user_id |-> user_id,
                                  question |-> IF row = NULL THEN ""
                                               ELSE row[1].question,
                                  answer |-> IF row = NULL THEN ""
                                             ELSE row[1].answer,
                                  ts |-> t])]

\* log_mistake: new tables words and mistakes
log_mistake(ws, ms, user_id, word_id, t) ==
    LET row == get_word_by_id(ws, word_id)
    IN  IF row = NULL THEN [words |-> ws, mistakes |-> ms]
        ELSE [words |-> [i \in DOMAIN ws |->
                    IF ws[i].id = word_id
                    THEN [ws[i] EXCEPT !.mistakes_count = BumpedMistakesCount(@)]
                    ELSE ws[i]],
              mistakes |-> Append(ms, [user_id |-> user_id,
                                       question |-> row[1].question,
                                       answer |-> row[1].answer,
                                       ts |-> t])]

\* get_last_mistakes: the lists the call may return, oldest first. The query
\* orders by ts only, so rows of equal ts come in any order, and any of them
\* may be the ones LIMIT cuts off
get_last_mistakes(ms, user_id, limit) ==
    LET own == {k \in DOMAIN ms : ms[k].user_id = user_id}
        n == IF Cardinality(own) < limit THEN Cardinality(own) ELSE limit
        picks == {f \in [1..n -> own] :
                    /\ \A i, j \in 1..n : i < j =>
                            f[i] # f[j] /\ ms[f[i]].ts <= ms[f[j]].ts
                    /\ \A k \in own : (\A i \in 1..n : f[i] # k) =>
                            \A i \in 1..n : ms[k].ts <= ms[f[i]].ts}
    IN  {[i \in 1..n |-> [question |-> ms[f[i]].question,
                          answer |-> ms[f[i]].answer,
                          ts |-> ms[f[i]].ts]] : f \in picks}

\* get_stats
get_stats(ws, ms, user_id, t) ==
    [total_words |-> Len(ws),
     due_now |-> Cardinality({i \in DOMAIN ws : IsDue(ws[i], t)}),
     well_known |-> Cardinality({i \in DOMAIN ws : ws[i].progress >= 5}),
     mistakes_total |-> Cardinality({k \in DOMAIN ms : ms[k].user_id = user_id})]

\* s reordered by ascending keys[i], rows of equal key in table (id) order
SortBy(s, keys) ==
    LET rank(i) == 1 + Cardinality({j \in DOMAIN s :
                        keys[j] < keys[i] \/ (keys[j] = keys[i] /\ j < i)})
    IN  [r \in DOMAIN s |-> s[CHOOSE i \in DOMAIN s : rank(i) = r]]

\* get_all_progress
get_all_progress(ws) ==
    LET sorted == SortBy(ws, [i \in DOMAIN ws |-> ws[i].sheet_row])
    IN  [i \in DOMAIN sorted |->
            [sheet_row |-> sorted[i].sheet_row,
             progress |-> sorted[i].progress,
             last_success_ts |-> sorted[i].last_success_ts,
             mistakes_count |-> sorted[i].mistakes_count]]

\* get_all_mistakes_for_sync
get_all_mistakes_for_sync(ms) == SortBy(ms, [i \in DOMAIN ms |-> ms[i].ts])

\* replace_all_mistakes
replace_all_mistakes(entries) == entries

\* index of the first row of the list whose sheet_row repeats an earlier one
\* (the INSERT that violates UNIQUE), 0 if there is none
FirstDuplicate(ws) ==
    LET dups == {i \in DOMAIN ws : \E j \in 1..(i - 1) : ws[j].sheet_row = ws[i].sheet_row}
    IN  IF dups = {} THEN 0 ELSE CHOOSE i \in dups : \A j \in dups : i <= j

\* faulty variant of ReloadedNextDue: a Word without last success is
\* scheduled like an answered one, from the time of the import
ReloadedNextDue_scheduled(table, w, t) ==
    compute_next_due_ts(table, w.last_success_ts, w.progress, t)

\* faulty variant of ReloadedNextDue: every imported Word is due at the time
\* of the import
ReloadedNextDue_due_now(table, w, t) == t

\* next_due_ts replace_all_words gives a Word
ReloadedNextDue(table, w, t) ==
    IF w.last_success_ts # NULL
    THEN compute_next_due_ts(table, w.last_success_ts, w.progress, t)
    ELSE t

\* faulty variant of AutoincrementId: a key without AUTOINCREMENT, which
\* numbers the rows of an emptied table from 1 again
AutoincrementId_rowid(seq, i) == i

\* id of the i-th row inserted into words when the counter of the
\* AUTOINCREMENT key stands at seq (DELETE FROM words does not reset it)
AutoincrementId(seq, i) == seq + i

\* replace_all_words: ok = FALSE when an INSERT raises (nothing is committed)
replace_all_words(ws, seq, file, mem, list, t) ==
    LET dup == FirstDuplicate(list)
        table == load_intervals_from_file(file, mem)
        reached == IF dup = 0 THEN DOMAIN list ELSE 1..dup
        loaded == \E i \in reached : list[i].last_success_ts # NULL
        new_mem == IF loaded THEN table ELSE mem
    IN  IF dup # 0
        THEN [ok |-> FALSE, words |-> ws, seq |-> seq, mem |-> new_mem]
        ELSE [ok |-> TRUE,
              words |-> [i \in DOMAIN list |->
                    [id |-> AutoincrementId(seq, i),
                     sheet_row |-> list[i].sheet_row,
                     progress |-> list[i].progress,
                     question |-> list[i].question,
                     answer |-> list[i].answer,
                     example |-> list[i].example,
                     last_success_ts |-> list[i].last_success_ts,
                     next_due_ts |-> Some(ReloadedNextDue(table, list[i], t)),
                     mistakes_count |-> list[i].mistakes_count]],
              seq |-> seq + Len(list),
              mem |-> new_mem]

(* ------------------------- request payloads ---------------------------- *)

\* a WordIn row of a request
WordIn(row, c) ==
    [sheet_row |-> row, progress |-> c.progress,
     question |-> Vocabulary[row].question, answer |-> Vocabulary[row].answer,
     example |-> Vocabulary[row].example,
     last_success_ts_ms |-> c.last_success_ts_ms,
     mistakes_count |-> c.mistakes_count]

\* a /sync/words request
Payload(payload_words, mistakes_log, intervals_minutes) ==
    [words |-> payload_words, mistakes_log |-> mistakes_log,
     intervals_minutes |-> intervals_minutes]

\* no request: what a handler other than sync_words has as its payload
NoPayload == Payload(<< >>, << >>, << >>)

\* a MistakeLogIn row: a mistake of another user on row 3, before process start
LoggedMistake ==
    [user_id |-> 7, ts_ms |-> [s |-> StartTime - 30, r |-> 500],
     question |-> Vocabulary[3].question, answer |-> Vocabulary[3].answer]

\* requests the spreadsheet may send (mistakes_log and intervals_minutes are
\* None or [] alike when empty): an empty sheet; one fresh card; two decks that
\* put the levels 12, 6 and 7, 0 on rows 2 and 3, one with a mistakes log, one
\* with interval overrides (the third is negative); a deck that sends row 2 twice
PayloadInputs ==
    {Payload(<< >>, << >>, << >>),
     Payload(<<WordIn(2, FreshColumns)>>, << >>, << >>),
     Payload(<<WordIn(2, Columns(12, Some(PastMs), 1)), WordIn(3, Columns(6, NULL, 0))>>,
             <<LoggedMistake>>, << >>),
     Payload(<<WordIn(3, Columns(0, NULL, 0)), WordIn(2, Columns(7, Some(PastMs), 0))>>,
             << >>, <<2, 1, -5>>),
     Payload(<<WordIn(2, FreshColumns), WordIn(2, Columns(7, Some(PastMs), 0))>>,
             << >>, <<3>>)}

(* ------------------------------ main.py -------------------------------- *)

ALLOWED_USER_IDS == {518129411}

is_allowed(user_id) == user_id \in ALLOWED_USER_IDS

\* dict.get(key): a missing key gives None, which the handlers test with
\* "if not word_id"; ids start at 1, so None is modelled as 0
DictGet(d, key) == IF key \in DOMAIN d THEN d[key] ELSE 0

\* faulty variant of DictSet: one slot shared by all users instead of one
\* entry per user
DictSet_shared(d, key, value) ==
    [k \in (DOMAIN d) \cup {key} |-> value]

\* d[key] = value
DictSet(d, key, value) ==
    [k \in (DOMAIN d) \cup {key} |-> IF k = key THEN value ELSE d[k]]

\* int(ms // 1000)
ms_to_sec(ms) == ms.s

\* faulty variant of sec_to_ms: the seconds are sent as if they were
\* milliseconds
sec_to_ms_unscaled(ts) == [s |-> ts \div 1000, r |-> ts % 1000]

\* int(ts * 1000)
sec_to_ms(ts) == [s |-> ts, r |-> 0]

\* what a handler reports: what it did ("answer" for a verdict by button,
\* command or typed text, "fix" for a correction, ...), its arguments, the
\* clock it read and its answer; for sync_words the request it was sent
Ret(op, user, word_id, verdict, reply, old_progress, new_progress) ==
    [op |-> op, user |-> user, word_id |-> word_id, verdict |-> verdict,
     reply |-> reply, old_progress |-> old_progress,
     new_progress |-> new_progress, t |-> now, due |-> 0,
     items |-> << >>, log |-> << >>, from_export |-> FALSE,
     table |-> << >>, stats |-> << >>, payload |-> NoPayload]

\* the reply to a user who is not allowed
Denied(user_id) == Ret("denied", user_id, 0, "-", "denied", 0, 0)

\* the verdict branch shared by the button, the commands, typed answers and
\* the correction: "know" increments, anything else decrements and logs a
\* mistake
ApplyVerdict(user_id, word_id, verdict) ==
    IF verdict = "know"
    THEN LET r == increment_progress_and_update_due(
                      words, intervals_file, level_to_minutes, word_id, now)
         IN  [words |-> r.words, mistakes |-> mistakes, mem |-> r.mem,
              result |-> r.result]
    ELSE LET r == decrement_progress(
                      words, intervals_file, level_to_minutes, word_id, now)
             l == log_mistake(r.words, mistakes, user_id, word_id, now)
         IN  [words |-> l.words, mistakes |-> l.mistakes, mem |-> r.mem,
              result |-> r.result]

\* a handler that answers without touching the database or the session
ReplyOnly(r) ==
    /\ ret' = r
    /\ UNCHANGED <<words, words_seq, mistakes, intervals_file, level_to_minutes,
                   user_last_word, user_current_word, now, syncs, answers,
                   tasks>>

\* the database part of an answer: the verdict is applied to the card, within
\* the budget of answers
Answer(op, user_id, word_id, verdict, row) ==
    /\ answers < MaxAnswers
    /\ answers' = answers + 1
    /\ LET r == ApplyVerdict(user_id, word_id, verdict)
       IN  /\ words' = r.words
           /\ mistakes' = r.mistakes
           /\ level_to_minutes' = r.mem
           /\ ret' = Ret(op, user_id, word_id, verdict, "ok",
                         row[1].progress, r.result)
    /\ UNCHANGED <<words_seq, intervals_file, now, syncs, tasks>>

\* handle_answer with callback data "ans:" word_id ":" "know" or "dont"
HandleAnswer(user_id, word_id, verdict) ==
    LET op == "answer"
        row == get_word_by_id(words, word_id)
    IN  IF ~is_allowed(user_id) THEN ReplyOnly(Denied(user_id))
        ELSE IF row = NULL
        THEN ReplyOnly(Ret(op, user_id, word_id, "-", "not_found", 0, 0))
        ELSE
            /\ Answer(op, user_id, word_id, verdict, row)
            /\ user_last_word' = DictSet(user_last_word, user_id, word_id)
            /\ \E next_row \in get_next_word(words', now) :
                    user_current_word' =
                        DictSet(user_current_word, user_id,
                                IF next_row = NULL THEN word_id
                                ELSE next_row[1].id)

\* process_verdict_for_current: the commands /iknow and /idontknow
ProcessVerdictForCurrent(user_id, verdict) ==
    LET op == "answer"
        word_id == DictGet(user_current_word, user_id)
        row == get_word_by_id(words, word_id)
    IN  IF ~is_allowed(user_id) THEN ReplyOnly(Denied(user_id))
        ELSE IF word_id = 0
        THEN ReplyOnly(Ret(op, user_id, 0, "-", "no_current", 0, 0))
        ELSE IF row = NULL
        THEN ReplyOnly(Ret(op, user_id, word_id, "-", "not_found", 0, 0))
        ELSE
            /\ Answer(op, user_id, word_id, verdict, row)
            /\ user_last_word' = DictSet(user_last_word, user_id, word_id)
            /\ \E next_row \in get_next_word(words', now) :
                    user_current_word' =
                        IF next_row = NULL THEN user_current_word
                        ELSE DictSet(user_current_word, user_id, next_row[1].id)

\* verdict a typed answer gets from distance_leq1 of the normalized texts:
\* distance 0 or 1 counts as known, 2 as not known
TypedVerdict(dist) == IF dist = 0 \/ dist = 1 THEN "know" ELSE "dont"

\* handle_typed_answer up to its reply; the ask_next_card that follows the
\* send is the step CmdNext
HandleTypedAnswer(user_id, dist) ==
    LET op == "answer"
        word_id == DictGet(user_current_word, user_id)
        row == get_word_by_id(words, word_id)
    IN  IF ~is_allowed(user_id) THEN ReplyOnly(Denied(user_id))
        ELSE IF word_id = 0
        THEN ReplyOnly(Ret(op, user_id, 0, "-", "no_current", 0, 0))
        ELSE IF row = NULL
        THEN ReplyOnly(Ret(op, user_id, word_id, "-", "not_found", 0, 0))
        ELSE
            /\ Answer(op, user_id, word_id, TypedVerdict(dist), row)
            /\ user_last_word' = DictSet(user_last_word, user_id, word_id)
            /\ UNCHANGED user_current_word

\* ask_next_card
ask_next_card(user_id) ==
    \E row \in get_next_word(words, now) :
        /\ user_current_word' =
                IF row = NULL THEN user_current_word
                ELSE DictSet(user_current_word, user_id, row[1].id)
        /\ ret' = [Ret("ask_next_card", user_id,
                       IF row = NULL THEN 0 ELSE row[1].id, "-",
                       IF row = NULL THEN "no_words" ELSE "ok", 0, 0)
                   EXCEPT !.due = get_due_count(words, now)]

\* cmd_next; the ask_next_card that ends handle_typed_answer, after its
\* reply was sent, is this step as well
CmdNext(user_id) ==
    IF ~is_allowed(user_id) THEN ReplyOnly(Denied(user_id))
    ELSE /\ ask_next_card(user_id)
         /\ UNCHANGED <<words, words_seq, mistakes, intervals_file,
                        level_to_minutes, user_last_word, now, syncs, answers,
                        tasks>>

\* limit cmd_mistakes passes to send_mistakes_to_user
MISTAKES_LIMIT == 80

\* cmd_mistakes: send_mistakes_to_user with the last mistakes of the user
CmdMistakes(user_id) ==
    IF ~is_allowed(user_id) THEN ReplyOnly(Denied(user_id))
    ELSE \E rows \in get_last_mistakes(mistakes, user_id, MISTAKES_LIMIT) :
            ReplyOnly([Ret("mistakes", user_id, 0, "-",
                           IF rows = << >> THEN "no_mistakes" ELSE "ok", 0, 0)
                       EXCEPT !.log = rows])

\* cmd_stats
CmdStats(user_id) ==
    IF ~is_allowed(user_id) THEN ReplyOnly(Denied(user_id))
    ELSE ReplyOnly([Ret("stats", user_id, 0, "-", "ok", 0, 0)
                    EXCEPT !.stats = get_stats(words, mistakes, user_id, now)])

\* cmd_intervals: the table get_intervals_table returns is shown
CmdIntervals(user_id) ==
    IF ~is_allowed(user_id) THEN ReplyOnly(Denied(user_id))
    ELSE LET table == load_intervals_from_file(intervals_file, level_to_minutes)
         IN  /\ level_to_minutes' = table
             /\ ret' = [Ret("intervals", user_id, 0, "-", "ok", 0, 0)
                        EXCEPT !.table = get_intervals_table(table)]
             /\ UNCHANGED <<words, words_seq, mistakes, intervals_file,
                            user_last_word, user_current_word, now, syncs,
                            answers, tasks>>

\* faulty variant of FixLast: the correction goes to the card the user is
\* being asked, not to the card answered last
FixLast_on_current(user_id) ==
    LET op == "fix"
        last_id == DictGet(user_current_word, user_id)
        row == get_word_by_id(words, last_id)
    IN  IF ~is_allowed(user_id) THEN ReplyOnly(Denied(user_id))
        ELSE IF last_id = 0
        THEN ReplyOnly(Ret(op, user_id, 0, "-", "no_previous", 0, 0))
        ELSE IF row = NULL
        THEN ReplyOnly(Ret(op, user_id, last_id, "-", "not_found", 0, 0))
        ELSE
            /\ Answer(op, user_id, last_id, "fix", row)
            /\ UNCHANGED <<user_last_word, user_current_word>>

\* faulty variant of FixLast: without a card answered last the correction
\* falls back on the card the user is being asked
FixLast_or_current(user_id) ==
    LET op == "fix"
        last_id == IF DictGet(user_last_word, user_id) # 0
                   THEN DictGet(user_last_word, user_id)
                   ELSE DictGet(user_current_word, user_id)
        row == get_word_by_id(words, last_id)
    IN  IF ~is_allowed(user_id) THEN ReplyOnly(Denied(user_id))
        ELSE IF last_id = 0
        THEN ReplyOnly(Ret(op, user_id, 0, "-", "no_previous", 0, 0))
        ELSE IF row = NULL
        THEN ReplyOnly(Ret(op, user_id, last_id, "-", "not_found", 0, 0))
        ELSE
            /\ Answer(op, user_id, last_id, "fix", row)
            /\ UNCHANGED <<user_last_word, user_current_word>>

\* "I was wrong": the branch data == "ans:fix" of handle_answer, and
\* process_fix_for_last (/iwaswrong), which repeats it
FixLast(user_id) ==
    LET op == "fix"
        last_id == DictGet(user_last_word, user_id)
        row == get_word_by_id(words, last_id)
    IN  IF ~is_allowed(user_id) THEN ReplyOnly(Denied(user_id))
        ELSE IF last_id = 0
        THEN ReplyOnly(Ret(op, user_id, 0, "-", "no_previous", 0, 0))
        ELSE IF row = NULL
        THEN ReplyOnly(Ret(op, user_id, last_id, "-", "not_found", 0, 0))
        ELSE
            /\ Answer(op, user_id, last_id, "fix", row)
            /\ UNCHANGED <<user_last_word, user_current_word>>

\* handle_answer with callback data "ans:fix"
HandleAnswerFix(user_id) == FixLast(user_id)

\* process_fix_for_last: the command /iwaswrong
ProcessFixForLast(user_id) == FixLast(user_id)

(* ------------------------- sync endpoints ------------------------------ *)

\* the Word list sync_words builds from payload.words
WordsOfPayload(payload_words) ==
    [i \in DOMAIN payload_words |->
        [sheet_row |-> payload_words[i].sheet_row,
         progress |-> payload_words[i].progress,
         question |-> payload_words[i].question,
         answer |-> payload_words[i].answer,
         example |-> payload_words[i].example,
         last_success_ts |->
            IF payload_words[i].last_success_ts_ms # NULL
            THEN Some(ms_to_sec(payload_words[i].last_success_ts_ms[1]))
            ELSE NULL,
         mistakes_count |-> payload_words[i].mistakes_count]]

\* the JSON object sync_words dumps to INTERVALS_PATH: the levels 1..n in
\* the order of the list, then the level 0
IntervalsJson(intervals_minutes) ==
    [k \in 1..(Len(intervals_minutes) + 1) |->
        IF k <= Len(intervals_minutes)
        THEN JsonItem(DecimalString(k), JsonInt(intervals_minutes[k]))
        ELSE JsonItem(DecimalString(0), JsonInt(1))]

\* the tuples sync_words builds from payload.mistakes_log
EntriesOfPayload(mistakes_log) ==
    [i \in DOMAIN mistakes_log |->
        [user_id |-> mistakes_log[i].user_id,
         question |-> mistakes_log[i].question,
         answer |-> mistakes_log[i].answer,
         ts |-> ms_to_sec(mistakes_log[i].ts_ms)]]

\* faulty variant of DoSyncWords: the imported mistakes are added to the rows
\* the table holds instead of replacing them
DoSyncWords_keeps_log(payload, items, from_export) ==
    LET list == WordsOfPayload(payload.words)
        file == IF payload.intervals_minutes # << >>
                THEN JsonIntervalsFile(IntervalsJson(payload.intervals_minutes))
                ELSE intervals_file
        r == replace_all_words(words, words_seq, file, level_to_minutes, list, now)
        entries == EntriesOfPayload(payload.mistakes_log)
    IN  /\ r.seq <= MaxWordId
        /\ intervals_file' = file
        /\ level_to_minutes' = r.mem
        /\ words' = r.words
        /\ words_seq' = r.seq
        /\ mistakes' = IF r.ok THEN mistakes \o entries ELSE mistakes
        /\ ret' = [Ret("sync_words", 0, 0, "-", IF r.ok THEN "ok" ELSE "error",
                       0, IF r.ok THEN Len(list) ELSE 0)
                   EXCEPT !.items = items, !.from_export = from_export,
                          !.payload = payload]
        /\ UNCHANGED <<user_last_word, user_current_word, now, answers, tasks>>

\* sync_words; items is the export the payload was built from, if any
DoSyncWords(payload, items, from_export) ==
    LET list == WordsOfPayload(payload.words)
        file == IF payload.intervals_minutes # << >>
                THEN JsonIntervalsFile(IntervalsJson(payload.intervals_minutes))
                ELSE intervals_file
        r == replace_all_words(words, words_seq, file, level_to_minutes, list, now)
        entries == EntriesOfPayload(payload.mistakes_log)
    IN  /\ r.seq <= MaxWordId
        /\ intervals_file' = file
        /\ level_to_minutes' = r.mem
        /\ words' = r.words
        /\ words_seq' = r.seq
        /\ mistakes' = IF r.ok THEN replace_all_mistakes(entries) ELSE mistakes
        /\ ret' = [Ret("sync_words", 0, 0, "-", IF r.ok THEN "ok" ELSE "error",
                       0, IF r.ok THEN Len(list) ELSE 0)
                   EXCEPT !.items = items, !.from_export = from_export,
                          !.payload = payload]
        /\ UNCHANGED <<user_last_word, user_current_word, now, answers, tasks>>

\* POST /sync/words with a payload of the spreadsheet's own making
SyncWords(payload) ==
    /\ syncs < MaxSyncs
    /\ syncs' = syncs + 1
    /\ DoSyncWords(payload, << >>, FALSE)

\* items of the /sync/progress response
ProgressItems(ws) ==
    LET raw == get_all_progress(ws)
    IN  [i \in DOMAIN raw |->
            [sheet_row |-> raw[i].sheet_row,
             progress |-> raw[i].progress,
             last_success_ts_ms |->
                IF raw[i].last_success_ts # NULL
                THEN Some(sec_to_ms(raw[i].last_success_ts[1]))
                ELSE NULL,
             mistakes_count |-> raw[i].mistakes_count]]

\* mistakes_log of the /sync/progress response
MistakesOut(ms) ==
    LET raw == get_all_mistakes_for_sync(ms)
    IN  [i \in DOMAIN raw |->
            [user_id |-> raw[i].user_id,
             ts_ms |-> sec_to_ms(raw[i].ts),
             question |-> raw[i].question,
             answer |-> raw[i].answer]]

\* GET /sync/progress
SyncProgress ==
    /\ ret' = [Ret("sync_progress", 0, 0, "-", "ok", 0, 0)
               EXCEPT !.items = ProgressItems(words), !.log = MistakesOut(mistakes)]
    /\ UNCHANGED <<words, words_seq, mistakes, intervals_file, level_to_minutes,
                   user_last_word, user_current_word, now, syncs, answers,
                   tasks>>

\* the words the spreadsheet sends back after it stored an export: the
\* exported columns, with the texts of the same sheet row
WordsOfExport(items, ws) ==
    [i \in DOMAIN items |->
        LET w == ws[CHOOSE j \in DOMAIN ws : ws[j].sheet_row = items[i].sheet_row]
        IN  [sheet_row |-> items[i].sheet_row,
             progress |-> items[i].progress,
             question |-> w.question,
             answer |-> w.answer,
             example |-> w.example,
             last_success_ts_ms |-> items[i].last_success_ts_ms,
             mistakes_count |-> items[i].mistakes_count]]

\* POST /sync/words with exactly what the last GET /sync/progress returned:
\* its items and its mistakes log
SyncWordsFromExport ==
    /\ ret.op = "sync_progress"
    /\ UNCHANGED syncs
    /\ DoSyncWords(Payload(WordsOfExport(ret.items, words), ret.log, << >>),
                   ret.items, TRUE)

(* ------------------------------ clock ---------------------------------- *)

\* time passes between two handlers
Tick(t) ==
    /\ now < t
    /\ now' = t
    /\ UNCHANGED <<words, words_seq, mistakes, intervals_file, level_to_minutes,
                   user_last_word, user_current_word, syncs, answers, ret,
                   tasks>>

(* --------------------------- specification ----------------------------- *)

Init ==
    /\ words = << >>
    /\ words_seq = 0
    /\ mistakes = << >>
    /\ intervals_file = NoIntervalsFile
    /\ level_to_minutes = DEFAULT_LEVEL_TO_MINUTES
    /\ user_last_word = << >>
    /\ user_current_word = << >>
    /\ now = StartTime
    /\ syncs = 0
    /\ answers = 0
    /\ ret = [op |-> "startup", user |-> 0, word_id |-> 0, verdict |-> "-",
              reply |-> "ok", old_progress |-> 0, new_progress |-> 0,
              t |-> StartTime, due |-> 0, items |-> << >>, log |-> << >>,
              from_export |-> FALSE, table |-> << >>, stats |-> << >>,
              payload |-> NoPayload]
    /\ tasks = << >>

\* what a sender can put into a request: a user who is not allowed is turned
\* away before anything of the request is read. A button carries the id of a
\* card of the table, or an id the table does not hold (the lowest such id: one
\* of an earlier deck, or one never handed out)
CallbackIds(user_id) ==
    IF is_allowed(user_id)
    THEN {words[i].id : i \in DOMAIN words}
            \cup {CHOOSE id \in 1..(words_seq + 1) :
                        /\ ~HasWord(words, id)
                        /\ \A other \in 1..(id - 1) : HasWord(words, other)}
    ELSE {1}
Verdicts(user_id) == IF is_allowed(user_id) THEN {"know", "dont"} ELSE {"know"}
Distances(user_id) == IF is_allowed(user_id) THEN 0..2 ELSE {0}

Next ==
    \/ \E u \in UserIds : \E id \in CallbackIds(u), v \in Verdicts(u) :
            HandleAnswer(u, id, v)
    \/ \E u \in UserIds : HandleAnswerFix(u)
    \/ \E u \in UserIds : \E v \in Verdicts(u) : ProcessVerdictForCurrent(u, v)
    \/ \E u \in UserIds : ProcessFixForLast(u)
    \/ \E u \in UserIds : \E dist \in Distances(u) : HandleTypedAnswer(u, dist)
    \/ \E u \in UserIds : CmdNext(u)
    \/ \E u \in UserIds : CmdMistakes(u)
    \/ \E u \in UserIds : CmdStats(u)
    \/ \E payload \in PayloadInputs : SyncWords(payload)
    \/ SyncProgress
    \/ SyncWordsFromExport
    \/ \E t \in ClockInputs : Tick(t)

Spec == Init /\ [][Next]_vars

(* --------------------------- an edited file ---------------------------- *)
\* A second environment: the file INTERVALS_PATH is replaced from outside the
\* bot (a deployment, an operator), also by a damaged one, between imports
\* and lookups of the table.

\* a file that is no JSON object (truncated, not JSON, a JSON list)
DamagedIntervalsFile == [kind |-> "damaged", data |-> << >>]

\* contents the file may be given: none, {}, an override of the levels 1 and
\* 2, items that are all out of range or negative, a damaged file, and
\* files written by hand: {"3": "60", " 4 ": 90, "x": 9, "6": null,
\* "03": 45}, {"5": -0.5, "3": 2.7} and {"2": 15, "7": Infinity}
IntervalsFileInputs ==
    {NoIntervalsFile,
     JsonIntervalsFile(<< >>),
     JsonIntervalsFile(IntervalsJson(<<5, 10>>)),
     JsonIntervalsFile(<<JsonItem(<<"0">>, JsonInt(7)),
                         JsonItem(<<"3">>, JsonInt(-1)),
                         JsonItem(<<"1", "3">>, JsonInt(7))>>),
     JsonIntervalsFile(<<JsonItem(<<"3">>, JsonStr(<<"6", "0">>)),
                         JsonItem(<<" ", "4", " ">>, JsonInt(90)),
                         JsonItem(<<"x">>, JsonInt(9)),
                         JsonItem(<<"6">>, JsonNull),
                         JsonItem(<<"0", "3">>, JsonInt(45))>>),
     JsonIntervalsFile(<<JsonItem(<<"5">>, JsonFloat(-5)),
                         JsonItem(<<"3">>, JsonFloat(27))>>),
     JsonIntervalsFile(<<JsonItem(<<"2">>, JsonInt(15)),
                         JsonItem(<<"7">>, JsonInfinity)>>),
     DamagedIntervalsFile}

\* the file INTERVALS_PATH is replaced
IntervalsFileReplaced(file) ==
    /\ intervals_file # file
    /\ intervals_file' = file
    /\ UNCHANGED <<words, words_seq, mistakes, level_to_minutes,
                   user_last_word, user_current_word, now, syncs, answers, ret,
                   tasks>>

NextIntervals ==
    \/ \E u \in UserIds : CmdIntervals(u)
    \/ \E file \in IntervalsFileInputs : IntervalsFileReplaced(file)
    \/ \E payload \in PayloadInputs : SyncWords(payload)
    \/ \E t \in ClockInputs : Tick(t)

SpecIntervals == Init /\ [][NextIntervals]_vars

(* ----------------------------- a large deck ---------------------------- *)
\* A third environment: the table holds a deck larger than the window of the
\* nearest-upcoming query.

\* the Word list of a large deck: rows 2, 3, ... at level 4, last answered
\* about a day before process start, 1000 seconds apart
LargeDeck ==
    [i \in 1..(UPCOMING_LIMIT + DeckExtra) |->
        [sheet_row |-> i + 1, progress |-> 4,
         question |-> ToString(i + 1), answer |-> ToString(i + 1),
         example |-> NULL,
         last_success_ts |-> Some(StartTime - 86400 + 1000 * i),
         mistakes_count |-> 0]]

\* the process starts on a database that holds the large deck, loaded at
\* StartTime by an earlier run
InitDeck ==
    /\ words = replace_all_words(<< >>, 0, NoIntervalsFile,
                                 DEFAULT_LEVEL_TO_MINUTES, LargeDeck,
                                 StartTime).words
    /\ words_seq = Len(LargeDeck)
    /\ mistakes = << >>
    /\ intervals_file = NoIntervalsFile
    /\ level_to_minutes = DEFAULT_LEVEL_TO_MINUTES
    /\ user_last_word = << >>
    /\ user_current_word = << >>
    /\ now = StartTime
    /\ syncs = 0
    /\ answers = 0
    /\ ret = [op |-> "startup", user |-> 0, word_id |-> 0, verdict |-> "-",
              reply |-> "ok", old_progress |-> 0, new_progress |-> 0,
              t |-> StartTime, due |-> 0, items |-> << >>, log |-> << >>,
              from_export |-> FALSE, table |-> << >>, stats |-> << >>,
              payload |-> NoPayload]
    /\ tasks = << >>

NextDeck ==
    \/ \E u \in UserIds : CmdNext(u)
    \/ \E t \in ClockInputs : Tick(t)

SpecDeck == InitDeck /\ [][NextDeck]_vars

(* --------------------------- a restarted bot --------------------------- *)
\* A fourth environment: the process is stopped and started again between
\* handlers. The database and the intervals file stay; the module globals
\* are initialised anew.

\* process start: user_last_word = {}, user_current_word = {} and
\* _LEVEL_TO_MINUTES = DEFAULT_LEVEL_TO_MINUTES.copy(); on_startup runs init_db,
\* which creates nothing on an existing database
Restart ==
    /\ ret.op # "startup"
    /\ user_last_word' = << >>
    /\ user_current_word' = << >>
    /\ level_to_minutes' = DEFAULT_LEVEL_TO_MINUTES
    /\ ret' = Ret("startup", 0, 0, "-", "ok", 0, 0)
    /\ UNCHANGED <<words, words_seq, mistakes, intervals_file, now, syncs,
                   answers, tasks>>

NextSession ==
    \/ \E u \in UserIds : \E id \in CallbackIds(u), v \in Verdicts(u) :
            HandleAnswer(u, id, v)
    \/ \E u \in UserIds : HandleAnswerFix(u)
    \/ \E u \in UserIds : \E v \in Verdicts(u) : ProcessVerdictForCurrent(u, v)
    \/ \E u \in UserIds : ProcessFixForLast(u)
    \/ \E u \in UserIds : \E dist \in Distances(u) : HandleTypedAnswer(u, dist)
    \/ \E u \in UserIds : CmdNext(u)
    \/ \E payload \in PayloadInputs : SyncWords(payload)
    \/ Restart

SpecSession == Init /\ [][NextSession]_vars

(* ----------------------- interleaved answer handlers -------------------- *)
\* handle_answer is a coroutine: the event loop may run another handler at
\* each of its awaits. Here every await of a db.py coroutine is such a point
\* (the coroutines of db.py hold no await themselves, so each of them runs
\* as one step); the interleavings of the running bot are among these.

\* a handler between two of its awaits: pc names the await it is about to
\* run, row is what its get_word_by_id returned, result what the verdict
\* returned
Task(pc, user_id, word_id, verdict, row, result) ==
    [pc |-> pc, user |-> user_id, word_id |-> word_id, verdict |-> verdict,
     row |-> row, result |-> result]

\* handle_answer up to "row = await get_word_by_id(word_id)" and the test of
\* the row
TaskStart(user_id, word_id, verdict) ==
    LET row == get_word_by_id(words, word_id)
    IN  IF ~is_allowed(user_id) THEN ReplyOnly(Denied(user_id))
        ELSE IF row = NULL
        THEN ReplyOnly(Ret("answer", user_id, word_id, "-", "not_found", 0, 0))
        ELSE
            /\ Len(tasks) < MaxAnswers
            /\ tasks' = Append(tasks, Task("verdict", user_id, word_id,
                                           verdict, row[1], 0))
            /\ UNCHANGED <<words, words_seq, mistakes, intervals_file,
                           level_to_minutes, user_last_word,
                           user_current_word, now, syncs, answers, ret>>

\* faulty variant of TaskVerdictResult: the new progress is computed from the
\* row the handler read at its start
TaskVerdictResult_from_row(task) ==
    LET stale == [i \in DOMAIN words |->
                    IF words[i].id = task.word_id
                    THEN [words[i] EXCEPT !.progress = task.row.progress]
                    ELSE words[i]]
    IN  IF task.verdict = "know"
        THEN increment_progress_and_update_due(
                 stale, intervals_file, level_to_minutes, task.word_id, now)
        ELSE decrement_progress(
                 stale, intervals_file, level_to_minutes, task.word_id, now)

\* "new_progress = await increment_progress_and_update_due(word_id)" or
\* "new_progress = await decrement_progress(word_id)": the coroutine reads
\* the card again and writes it
TaskVerdictResult(task) ==
    IF task.verdict = "know"
    THEN increment_progress_and_update_due(
             words, intervals_file, level_to_minutes, task.word_id, now)
    ELSE decrement_progress(
             words, intervals_file, level_to_minutes, task.word_id, now)

\* handle_answer from the two session writes to the await of the verdict
TaskVerdict(k) ==
    LET task == tasks[k]
        r == TaskVerdictResult(task)
    IN  /\ task.pc = "verdict"
        /\ user_last_word' = DictSet(user_last_word, task.user, task.word_id)
        /\ user_current_word' =
                DictSet(user_current_word, task.user, task.word_id)
        /\ words' = r.words
        /\ level_to_minutes' = r.mem
        /\ answers' = answers + 1
        /\ tasks' = [tasks EXCEPT
                        ![k].pc = IF task.verdict = "know" THEN "next"
                                  ELSE "log",
                        ![k].result = r.result]
        /\ UNCHANGED <<words_seq, mistakes, intervals_file, now, syncs, ret>>

\* "await log_mistake(user_id, word_id)" of the "dont" branch
TaskLog(k) ==
    LET task == tasks[k]
        l == log_mistake(words, mistakes, task.user, task.word_id, now)
    IN  /\ task.pc = "log"
        /\ words' = l.words
        /\ mistakes' = l.mistakes
        /\ tasks' = [tasks EXCEPT ![k].pc = "next"]
        /\ UNCHANGED <<words_seq, intervals_file, level_to_minutes,
                       user_last_word, user_current_word, now, syncs, answers,
                       ret>>

\* handle_answer from "next_row = await get_next_word()" to its end
TaskNext(k) ==
    LET task == tasks[k]
    IN  /\ task.pc = "next"
        /\ \E next_row \in get_next_word(words, now) :
                user_current_word' =
                    IF next_row = NULL THEN user_current_word
                    ELSE DictSet(user_current_word, task.user, next_row[1].id)
        /\ ret' = Ret("answer", task.user, task.word_id, task.verdict, "ok",
                      task.row.progress, task.result)
        /\ tasks' = [tasks EXCEPT ![k].pc = "done"]
        /\ UNCHANGED <<words, words_seq, mistakes, intervals_file,
                       level_to_minutes, user_last_word, now, syncs, answers>>

NextRace ==
    \/ \E u \in UserIds : \E id \in CallbackIds(u), v \in Verdicts(u) :
            TaskStart(u, id, v)
    \/ \E k \in DOMAIN tasks : TaskVerdict(k)
    \/ \E k \in DOMAIN tasks : TaskLog(k)
    \/ \E k \in DOMAIN tasks : TaskNext(k)
    \/ \E payload \in PayloadInputs : SyncWords(payload)

SpecRace == Init /\ [][NextRace]_vars

(* ----------------------------- properties ------------------------------ *)
\* In a state whose ret.op is "answer" the tables are those the verdict left
\* behind: every handler overwrites ret, and the clock alone does not touch
\* the tables.

\* C1: the progress of every stored card is an integer between 0 and 12; a
\* success on a card at 12 leaves it at 12.
C1_ProgressInRange ==
    \A i \in DOMAIN words : 0 <= words[i].progress /\ words[i].progress <= 12

\* C2: a success on an existing card of progress p stores and returns
\* min(p + 1, 12).
C2_SuccessIsClamped ==
    (ret.op = "answer" /\ ret.verdict = "know" /\ ret.reply = "ok") =>
        LET expected == IF ret.old_progress + 1 < 12
                        THEN ret.old_progress + 1 ELSE 12
        IN  /\ ret.new_progress = expected
            /\ get_word_by_id(words, ret.word_id)[1].progress = expected

\* C3: after a success on an existing card at clock t the card's last success
\* is t and it is due at t plus the delay of its new progress (the delay in
\* minutes of the interval table in effect, as seconds).
C3_SuccessSchedules ==
    (ret.op = "answer" /\ ret.verdict = "know" /\ ret.reply = "ok") =>
        LET card == get_word_by_id(words, ret.word_id)[1]
            table == load_intervals_from_file(intervals_file, level_to_minutes)
        IN  /\ card.progress = ret.new_progress
            /\ card.last_success_ts = Some(ret.t)
            /\ card.next_due_ts =
                  Some(ret.t + progress_to_minutes(table, card.progress) * 60)

\* C3, reached: a card of progress 6 was answered correctly and is due 11520
\* minutes (level 7 of the default table) later.
C3_Reached ==
    /\ ret.op = "answer" /\ ret.verdict = "know" /\ ret.reply = "ok"
    /\ ret.old_progress = 6
    /\ intervals_file = NoIntervalsFile
    /\ get_word_by_id(words, ret.word_id)[1].next_due_ts = Some(ret.t + 691200)

\* C4: a failure on an existing card of progress p stores and returns
\* max(0, p - 1) if p <= 6 and max(0, p - 2) if p > 6.
C4_FailureStep ==
    (ret.op = "answer" /\ ret.verdict = "dont" /\ ret.reply = "ok") =>
        LET p == ret.old_progress
            lowered == IF p <= 6 THEN p - 1 ELSE p - 2
            expected == IF lowered > 0 THEN lowered ELSE 0
        IN  /\ ret.new_progress = expected
            /\ get_word_by_id(words, ret.word_id)[1].progress = expected

\* C4, reached: a card of progress 7 was failed and is at 5.
C4_Reached ==
    /\ ret.op = "answer" /\ ret.verdict = "dont" /\ ret.reply = "ok"
    /\ ret.old_progress = 7
    /\ get_word_by_id(words, ret.word_id)[1].progress = 5

\* C5 as stated: after a failure on an existing card at clock t, whatever its
\* progress, the card has no last success and is due at t.
C5_FailureResets ==
    (ret.op = "answer" /\ ret.verdict = "dont" /\ ret.reply = "ok") =>
        LET card == get_word_by_id(words, ret.word_id)[1]
        IN  /\ card.last_success_ts = NULL
            /\ card.next_due_ts = Some(ret.t)

\* C5: after a failure at clock t on an existing card whose progress was at
\* most 6 the card has no last success and is due at t; a card whose progress
\* was above 6 is due at t + 24 h instead, and its last success is that
\* moment minus the delay of its new progress.
C5_FailureResetsOrDefers ==
    (ret.op = "answer" /\ ret.verdict = "dont" /\ ret.reply = "ok") =>
        LET card == get_word_by_id(words, ret.word_id)[1]
            table == load_intervals_from_file(intervals_file, level_to_minutes)
        IN  IF ret.old_progress <= 6
            THEN /\ card.last_success_ts = NULL
                 /\ card.next_due_ts = Some(ret.t)
            ELSE /\ card.next_due_ts = Some(ret.t + 86400)
                 /\ card.last_success_ts =
                        Some(ret.t + 86400
                                - progress_to_minutes(table, card.progress) * 60)

\* C5, reached: a card that a success had brought to progress 1 was failed;
\* it is at 0, has no last success and is due at once.
C5_Reached ==
    /\ ret.op = "answer" /\ ret.verdict = "dont" /\ ret.reply = "ok"
    /\ ret.old_progress = 1
    /\ get_word_by_id(words, ret.word_id)[1].progress = 0
    /\ get_word_by_id(words, ret.word_id)[1].next_due_ts = Some(ret.t)
    /\ get_word_by_id(words, ret.word_id)[1].last_success_ts = NULL

\* the mistakes rows that refer to card w: a row names its card by the
\* question and answer texts
C_LogEntriesOf(w, ms) ==
    {k \in DOMAIN ms : ms[k].question = w.question /\ ms[k].answer = w.answer}

\* C6: every handling of a failure on an existing card (the "don't know"
\* button, /idontknow, a wrong typed answer) appends exactly one mistakes row,
\* of the answering user, the card and the current time, and raises that
\* card's mistakes_count by exactly 1; no other card's count changes.
C6_FailureLogsOneMistake ==
    [][(answers' = answers + 1 /\ ret'.verdict = "dont") =>
        LET card == get_word_by_id(words, ret'.word_id)[1]
        IN  /\ mistakes' = Append(mistakes, [user_id |-> ret'.user,
                                             question |-> card.question,
                                             answer |-> card.answer,
                                             ts |-> now])
            /\ DOMAIN words' = DOMAIN words
            /\ \A i \in DOMAIN words :
                    /\ words'[i].id = words[i].id
                    /\ words'[i].mistakes_count =
                            IF words[i].id = card.id
                            THEN words[i].mistakes_count + 1
                            ELSE words[i].mistakes_count]_vars

\* C6, reached: in a deck of two cards a failure was handled; the last
\* mistakes row is the answering user's, on that card, at the handler's clock.
C6_Reached ==
    /\ ret.op = "answer" /\ ret.verdict = "dont" /\ ret.reply = "ok"
    /\ Len(words) = 2
    /\ mistakes # << >>
    /\ mistakes[Len(mistakes)].user_id = ret.user
    /\ mistakes[Len(mistakes)].ts = ret.t
    /\ mistakes[Len(mistakes)].question =
            get_word_by_id(words, ret.word_id)[1].question
    /\ get_word_by_id(words, ret.word_id)[1].mistakes_count >= 1

\* C7: for every card, mistakes_count equals the number of mistakes rows that
\* refer to it, in every state any sequence of imports and answers reaches.
C7_CountMatchesLog ==
    \A i \in DOMAIN words :
        words[i].mistakes_count = Cardinality(C_LogEntriesOf(words[i], mistakes))

\* C8: after an import of the mistakes log every card's mistakes_count is the
\* number of imported rows that refer to it; after the import of an empty log
\* the exported log is empty and every count is 0.
C8_ImportRecomputesCounts ==
    (ret.op = "sync_words" /\ ret.reply = "ok") =>
        /\ \A i \in DOMAIN words :
                words[i].mistakes_count =
                    Cardinality(C_LogEntriesOf(words[i], mistakes))
        /\ mistakes = << >> =>
                /\ MistakesOut(mistakes) = << >>
                /\ \A i \in DOMAIN words : words[i].mistakes_count = 0

\* C9: an import of exactly what the export returned leaves every sheet row
\* with the progress, last success and mistakes_count it had: the export of
\* the reloaded deck is the export that was sent.
C9_RoundTrip ==
    (ret.op = "sync_words" /\ ret.from_export /\ ret.reply = "ok") =>
        /\ ProgressItems(words) = ret.items
        /\ \A i \in DOMAIN ret.items :
              \E j \in DOMAIN words :
                /\ words[j].sheet_row = ret.items[i].sheet_row
                /\ words[j].progress = ret.items[i].progress
                /\ words[j].mistakes_count = ret.items[i].mistakes_count
                /\ (words[j].last_success_ts = NULL)
                        = (ret.items[i].last_success_ts_ms = NULL)
                /\ words[j].last_success_ts # NULL =>
                        /\ ret.items[i].last_success_ts_ms[1].s
                                = words[j].last_success_ts[1]
                        /\ ret.items[i].last_success_ts_ms[1].r = 0

\* C9, reached: a deck of two cards, one of them answered since process start
\* and one with mistakes, was exported and loaded back.
C9_Reached ==
    /\ ret.op = "sync_words" /\ ret.from_export /\ ret.reply = "ok"
    /\ Len(ret.items) = 2
    /\ \E i \in DOMAIN words :
            /\ words[i].last_success_ts # NULL
            /\ words[i].last_success_ts[1] >= StartTime
    /\ \E i \in DOMAIN words : words[i].mistakes_count > 0

\* C10: asking for the next card gives none exactly when the table is empty,
\* and otherwise a card of the table.
C10_NextCard ==
    /\ (get_next_word(words, now) = {NULL}) = (words = << >>)
    /\ words # << >> =>
            \A row \in get_next_word(words, now) :
                row # NULL /\ row[1] \in Range(words)
    /\ ret.op = "ask_next_card" =>
            /\ (ret.reply = "no_words") = (words = << >>)
            /\ ret.reply = "ok" => HasWord(words, ret.word_id)

\* C10, reached: a card was handed out although no card of the table was due.
C10_Reached ==
    /\ ret.op = "ask_next_card" /\ ret.reply = "ok"
    /\ HasWord(words, ret.word_id)
    /\ \A i \in DOMAIN words : ~IsDue(words[i], ret.t)

\* C11: when at least one card is due (no due time, or one not after the
\* clock) the next card is a due card, and each due card may be it; when no
\* card is due it is one of the at most 100 cards of smallest due time, and
\* each card of that window may be it.
C11_SelectionPriority ==
    LET due == {w \in Range(words) :
                    w.next_due_ts = NULL \/ w.next_due_ts[1] <= now}
        earlier(w) == {v \in Range(words) :
                            v.next_due_ts[1] < w.next_due_ts[1]}
        window == {w \in Range(words) : Cardinality(earlier(w)) < 100}
    IN  /\ due # {} => get_next_word(words, now) = {Some(w) : w \in due}
        /\ (due = {} /\ words # << >>) =>
                get_next_word(words, now) = {Some(w) : w \in window}
        /\ (ret.op = "ask_next_card" /\ ret.reply = "ok") =>
                LET card == get_word_by_id(words, ret.word_id)[1]
                IN  IF ret.due > 0
                    THEN card.next_due_ts[1] <= ret.t
                    ELSE Cardinality(earlier(card)) < 100

\* C11, reached: in a deck of more than 100 cards none of which is due, a
\* card of the window was handed out and a card outside the window exists.
C11_Reached ==
    /\ ret.op = "ask_next_card" /\ ret.reply = "ok" /\ ret.due = 0
    /\ now = ret.t
    /\ Len(words) > 100
    /\ \A i \in DOMAIN words : words[i].next_due_ts[1] > now
    /\ \E i \in DOMAIN words :
            Cardinality({j \in DOMAIN words :
                words[j].next_due_ts[1] < words[i].next_due_ts[1]}) >= 100

\* While ret.op is "ask_next_card" no handler has written to the table words
\* since that ask_next_card counted the due cards at clock ret.t (ret.due);
\* get_due_count(words, now) is what a second call returns now.

\* C12 as stated: two calls of the due count with no write to the cards
\* between them return the same value, however much time passes between them.
C12_DueCountIsStable ==
    (ret.op = "ask_next_card" /\ ret.reply = "ok") =>
        get_due_count(words, now) = ret.due

\* C12: two calls of the due count with no write to the cards between them
\* return the same value when the clock reads the same at both; when time
\* has passed the second returns the first value plus the number of cards
\* whose due time lies after the first call and not after the second.
C12_DueCountFollowsClock ==
    (ret.op = "ask_next_card" /\ ret.reply = "ok") =>
        /\ now = ret.t => get_due_count(words, now) = ret.due
        /\ get_due_count(words, now) =
                ret.due + Cardinality({i \in DOMAIN words :
                                /\ words[i].next_due_ts # NULL
                                /\ ret.t < words[i].next_due_ts[1]
                                /\ words[i].next_due_ts[1] <= now})

\* C12, reached: after the due cards were counted time has passed, no
\* handler ran, and a card that was not due then is due now.
C12_Reached ==
    /\ ret.op = "ask_next_card" /\ ret.reply = "ok"
    /\ ret.t < now
    /\ \E i \in DOMAIN words :
            ret.t < words[i].next_due_ts[1] /\ words[i].next_due_ts[1] <= now
    /\ \E i \in DOMAIN words : words[i].next_due_ts[1] <= ret.t

\* C13: under the interval table in effect (the default one, or the default
\* one merged with the accepted entries of the file) the delay of a level is
\* at most the delay of the next level, for the levels 0..11.
C13_DelaysAreMonotone ==
    LET table == load_intervals_from_file(intervals_file, level_to_minutes)
    IN  \A level \in 0..11 :
            progress_to_minutes(table, level)
                <= progress_to_minutes(table, level + 1)

\* C14: without a file the delay of level 0 is 1 minute, that of level 1 is
\* 1 minute and that of level 12 is 213120 minutes.
C14_DefaultDelays ==
    intervals_file = NoIntervalsFile =>
        LET table == load_intervals_from_file(intervals_file, level_to_minutes)
        IN  /\ progress_to_minutes(table, 0) = 1
            /\ progress_to_minutes(table, 1) = 1
            /\ progress_to_minutes(table, 12) = 213120

\* C15: whenever the file is missing, is empty, holds no acceptable entry or
\* cannot be parsed, the next lookup uses exactly the default table, also
\* when an earlier lookup of the process had loaded a valid override.
C15_UnusableFileGivesDefaults ==
    LET converted == ConvertedItems(intervals_file.data)
        unusable == \/ intervals_file.kind # "json"
                    \/ AcceptedItems(converted) = {}
                    \/ LoopRaises(converted)
        table == load_intervals_from_file(intervals_file, level_to_minutes)
    IN  unusable =>
            \A level \in 0..12 :
                progress_to_minutes(table, level)
                    = progress_to_minutes(DEFAULT_LEVEL_TO_MINUTES, level)

\* C16: increment_progress_and_update_due and decrement_progress called with
\* an id the table does not hold report an outcome that is none of the
\* progress values 0..12 a call on a card can return.
C16_NotFoundIsDistinct ==
    \A word_id \in 1..(words_seq + 1) :
        ~HasWord(words, word_id) =>
            /\ increment_progress_and_update_due(
                    words, intervals_file, level_to_minutes, word_id, now
                    ).result \notin 0..12
            /\ decrement_progress(
                    words, intervals_file, level_to_minutes, word_id, now
                    ).result \notin 0..12

\* C17: a correction ("I was wrong") applies to the card the user answered
\* last exactly what a failure applies: the same step down, the same
\* rescheduling, one appended mistakes row, mistakes_count + 1, whatever the
\* verdict of the answer was; every applied answer makes its card the
\* user's last one.
C17_UndoIsAFailure ==
    [][/\ (answers' = answers + 1 /\ ret'.op = "fix") =>
            LET user == ret'.user
                last_id == DictGet(user_last_word, user)
                card == get_word_by_id(words, last_id)[1]
                lowered == IF card.progress <= 6 THEN card.progress - 1
                           ELSE card.progress - 2
                r == decrement_progress(words, intervals_file,
                                        level_to_minutes, last_id, now)
                l == log_mistake(r.words, mistakes, user, last_id, now)
            IN  /\ ret'.word_id = last_id
                /\ ret'.new_progress = IF lowered > 0 THEN lowered ELSE 0
                /\ ret'.new_progress = r.result
                /\ words' = l.words
                /\ mistakes' = l.mistakes
                /\ Len(mistakes') = Len(mistakes) + 1
                /\ get_word_by_id(words', last_id)[1].mistakes_count
                        = card.mistakes_count + 1
       /\ (answers' = answers + 1 /\ ret'.op = "answer") =>
            DictGet(user_last_word', ret'.user) = ret'.word_id]_vars

\* C17, reached: a card at 6 was failed and then fixed: it is at 4 and
\* the last two mistakes rows are the user's, on that card.
C17_Reached ==
    /\ ret.op = "fix" /\ ret.reply = "ok"
    /\ ret.old_progress = 5 /\ ret.new_progress = 4
    /\ answers = 2
    /\ Len(mistakes) >= 2
    /\ \A k \in {Len(mistakes) - 1, Len(mistakes)} :
            /\ mistakes[k].user_id = ret.user
            /\ mistakes[k].question =
                    get_word_by_id(words, ret.word_id)[1].question

\* C18: a correction by a user who has answered no card since process start
\* is answered "no previous card" and changes no card, no mistakes row and
\* no session state; a user has a last card only after an answer.
C18_UndoWithoutAnswer ==
    [][/\ (ret'.op = "fix" /\ ret' # ret
                /\ DictGet(user_last_word, ret'.user) = 0) =>
            /\ ret'.reply = "no_previous"
            /\ UNCHANGED <<words, words_seq, mistakes, user_last_word,
                           user_current_word>>
       /\ answers = 0 => user_last_word = << >>]_vars

\* C18, reached: the user was shown a card, answered none and asked for a
\* correction.
C18_Reached ==
    /\ ret.op = "fix" /\ ret.reply = "no_previous"
    /\ answers = 0
    /\ words # << >>
    /\ DictGet(user_current_word, ret.user) # 0
    /\ mistakes = << >>

C20_LogIsAppendOnly ==
    [][ret'.op # "sync_words" =>
            /\ Len(mistakes') >= Len(mistakes)
            /\ \A k \in DOMAIN mistakes : mistakes'[k] = mistakes[k]]_vars

\* C20, reached: a failure was logged behind the imported row of another
\* user, which is still the first row.
C20_Reached ==
    /\ ret.op = "answer" /\ ret.verdict = "dont" /\ ret.reply = "ok"
    /\ Len(mistakes) >= 2
    /\ mistakes[1].user_id # ret.user
    /\ mistakes[1].ts < StartTime
    /\ mistakes[Len(mistakes)].ts = ret.t

\* A step is an import exactly when it changes ret or the id counter and
\* leaves ret.op = "sync_words": every handler writes ret, with the clock
\* it read.

\* C21: an import of rows with pairwise distinct sheet rows is a full reload:
\* afterwards the table words holds one card per row of the request, in the
\* request's order, with its sheet row, texts, progress, mistakes_count and
\* last success (the request's milliseconds as whole seconds); no card of
\* before is left (no id of before is an id of the table); the count
\* returned is the number of rows; the table mistakes holds exactly the rows
\* of the request's log, none when the request has no log.
C21_ImportReloads ==
    [][(/\ ret'.op = "sync_words" /\ ret'.reply = "ok"
        /\ <<ret, words_seq>>' # <<ret, words_seq>>) =>
        LET sent == ret'.payload.words
            log == ret'.payload.mistakes_log
        IN  /\ \A i, j \in DOMAIN sent :
                    i # j => sent[i].sheet_row # sent[j].sheet_row
            /\ ret'.new_progress = Len(sent)
            /\ Len(words') = Len(sent)
            /\ \A i \in DOMAIN sent :
                    /\ words'[i].sheet_row = sent[i].sheet_row
                    /\ words'[i].question = sent[i].question
                    /\ words'[i].answer = sent[i].answer
                    /\ words'[i].example = sent[i].example
                    /\ words'[i].progress = sent[i].progress
                    /\ words'[i].mistakes_count = sent[i].mistakes_count
                    /\ words'[i].last_success_ts =
                            IF sent[i].last_success_ts_ms = NULL THEN NULL
                            ELSE Some(sent[i].last_success_ts_ms[1].s)
            /\ \A i \in DOMAIN words' : \A j \in DOMAIN words :
                    words'[i].id # words[j].id
            /\ \A i, j \in DOMAIN words' :
                    i # j => words'[i].id # words'[j].id
            /\ Len(mistakes') = Len(log)
            /\ \A k \in DOMAIN log :
                    /\ mistakes'[k].user_id = log[k].user_id
                    /\ mistakes'[k].question = log[k].question
                    /\ mistakes'[k].answer = log[k].answer
                    /\ mistakes'[k].ts = log[k].ts_ms.s]_vars

\* C21, reached: a deck of two cards with a mistakes log was replaced by an
\* import of two rows and one log row: the table holds two cards, neither
\* with an id of the first deck, and one mistakes row.
C21_Reached ==
    /\ ret.op = "sync_words" /\ ret.reply = "ok"
    /\ Len(ret.payload.words) = 2 /\ Len(words) = 2
    /\ words_seq = 4
    /\ \A i \in DOMAIN words : words[i].id > 2
    /\ Len(ret.payload.mistakes_log) = 1 /\ Len(mistakes) = 1
    /\ answers >= 1

\* C22: an import that fails (a row that cannot be inserted, such as a sheet
\* row sent twice) leaves the table words, the table mistakes and the
\* intervals file exactly as they were.
C22_FailedImportChangesNothing ==
    [][(/\ ret'.op = "sync_words" /\ ret'.reply = "error"
        /\ <<ret, intervals_file>>' # <<ret, intervals_file>>) =>
            UNCHANGED <<words, words_seq, mistakes, intervals_file>>]_vars

\* C23: a failure (a "don't know" verdict or a correction) at clock t on a
\* card whose progress was above 6 and is above 0 afterwards leaves the card
\* due at t + 24 h, with a last success of that moment minus the delay of
\* its new progress, and the card is not due at any clock before t + 24 h;
\* in every other case the card has no last success and is due at t.
C23_DeferralVariant ==
    (ret.op \in {"answer", "fix"} /\ ret.verdict # "know" /\ ret.reply = "ok") =>
        LET card == get_word_by_id(words, ret.word_id)[1]
            table == load_intervals_from_file(intervals_file, level_to_minutes)
            delay == progress_to_minutes(table, ret.new_progress) * 60
        IN  /\ card.progress = ret.new_progress
            /\ IF ret.old_progress > 6 /\ ret.new_progress > 0
               THEN /\ card.next_due_ts = Some(ret.t + 24 * 60 * 60)
                    /\ card.last_success_ts =
                            Some(card.next_due_ts[1] - delay)
                    /\ now < ret.t + 24 * 60 * 60 =>
                            ~(card.next_due_ts = NULL
                                \/ card.next_due_ts[1] <= now)
               ELSE /\ card.last_success_ts = NULL
                    /\ card.next_due_ts = Some(ret.t)

\* C23, reached: a correction on a card of progress 7 left it at 5, due a
\* day later and not due now, its last success a day before the correction
\* (the delay of level 5 is two days).
C23_Reached ==
    /\ ret.op = "fix" /\ ret.reply = "ok"
    /\ ret.old_progress = 7 /\ ret.new_progress = 5
    /\ now = ret.t
    /\ get_word_by_id(words, ret.word_id)[1].next_due_ts = Some(now + 86400)
    /\ get_word_by_id(words, ret.word_id)[1].last_success_ts = Some(now - 86400)

\* C26: in every state that imports, successes, failures and corrections
\* reach, a card without last success is due: it has no due time or one
\* that is not after the clock.
C26_UnansweredIsDue ==
    \A i \in DOMAIN words :
        words[i].last_success_ts = NULL =>
            (words[i].next_due_ts = NULL \/ words[i].next_due_ts[1] <= now)

\* C26, reached: a card imported at progress 6 without last success was
\* failed a day after the import: it still has no last success, and it is
\* due since the failure.
C26_Reached ==
    /\ ret.op = "answer" /\ ret.verdict = "dont" /\ ret.reply = "ok"
    /\ ret.old_progress = 6
    /\ ret.t > StartTime
    /\ answers = 1
    /\ get_word_by_id(words, ret.word_id)[1].last_success_ts = NULL
    /\ get_word_by_id(words, ret.word_id)[1].next_due_ts = Some(ret.t)

\* the cards of ws that have a last success are due at their last success
\* plus the delay of their progress; table maps the levels 0..12 to minutes,
\* levels above 12 use the delay of level 12
C_Scheduled(ws, table) ==
    \A i \in DOMAIN ws :
        ws[i].last_success_ts # NULL =>
            LET level == IF ws[i].progress > 12 THEN 12
                         ELSE IF ws[i].progress < 0 THEN 0 ELSE ws[i].progress
            IN  ws[i].next_due_ts =
                    Some(ws[i].last_success_ts[1] + table[level] * 60)

\* C27: every card that has a last success is due at its last success plus
\* the delay of its stored progress, for as long as the interval table stays
\* the same: a successful import establishes this for the table it was
\* loaded with, and every step that leaves the table as it was (an answer, a
\* correction, an import, a read) preserves it.
C27_DueFollowsLastSuccess ==
    [][\A loaded \in
                {load_intervals_from_file(intervals_file, level_to_minutes)},
          reloaded \in
                {load_intervals_from_file(intervals_file', level_to_minutes')} :
            \A before \in {get_intervals_table(loaded)},
               after \in {get_intervals_table(reloaded)} :
                /\ (/\ ret'.op = "sync_words" /\ ret'.reply = "ok"
                    /\ <<ret, words_seq>>' # <<ret, words_seq>>) =>
                        C_Scheduled(words', after)
                /\ (C_Scheduled(words, before) /\ after = before) =>
                        C_Scheduled(words', after)]_vars

\* C27, reached: a card at 12 was answered correctly; it is stored at 13 and
\* due the delay of level 12 after its last success.
C27_Reached ==
    /\ ret.op = "answer" /\ ret.verdict = "know" /\ ret.reply = "ok"
    /\ ret.old_progress = 12
    /\ intervals_file = NoIntervalsFile
    /\ LET card == get_word_by_id(words, ret.word_id)[1]
       IN  /\ card.progress = 13
           /\ card.last_success_ts = Some(ret.t)
           /\ card.next_due_ts = Some(ret.t + 213120 * 60)
    /\ C_Scheduled(words, get_intervals_table(DEFAULT_LEVEL_TO_MINUTES))

\* C28: increment_progress_and_update_due, decrement_progress and
\* log_mistake called with an id the table does not hold leave every card
\* and the whole mistakes table as they were, and a handler that answers
\* "not found" changes neither table; an answer or a correction applied to
\* a card changes no field of any other card, and leaves the id, the sheet
\* row, the question, the answer and the example of its own card as they
\* were.
C28_AnswerFrame ==
    [][/\ \A word_id \in 1..(words_seq + 1) :
            ~HasWord(words, word_id) =>
                /\ increment_progress_and_update_due(
                        words, intervals_file, level_to_minutes, word_id, now
                        ).words = words
                /\ decrement_progress(
                        words, intervals_file, level_to_minutes, word_id, now
                        ).words = words
                /\ \A user_id \in UserIds :
                        LET l == log_mistake(words, mistakes, user_id,
                                             word_id, now)
                        IN  l.words = words /\ l.mistakes = mistakes
       /\ (ret'.reply = "not_found" /\ ret' # ret) =>
                UNCHANGED <<words, words_seq, mistakes>>
       /\ answers' = answers + 1 =>
            /\ HasWord(words, ret'.word_id)
            /\ DOMAIN words' = DOMAIN words
            /\ \A i \in DOMAIN words :
                    /\ words'[i].id = words[i].id
                    /\ words'[i].sheet_row = words[i].sheet_row
                    /\ words'[i].question = words[i].question
                    /\ words'[i].answer = words[i].answer
                    /\ words'[i].example = words[i].example
                    /\ words[i].id # ret'.word_id => words'[i] = words[i]]_vars

\* C28, reached: in the second deck of two cards (the ids of the first are
\* not in the table) the card without last success was failed; the other
\* card still holds the last success, the due time and the mistakes_count
\* of the import.
C28_Reached ==
    /\ ret.op = "answer" /\ ret.verdict = "dont" /\ ret.reply = "ok"
    /\ Len(words) = 2 /\ words_seq = 4
    /\ ~HasWord(words, 1) /\ ~HasWord(words, 2)
    /\ Len(mistakes) = 2
    /\ \E i \in DOMAIN words :
            /\ words[i].id # ret.word_id
            /\ words[i].progress = 12
            /\ words[i].last_success_ts = Some(StartTime - 60)
            /\ words[i].next_due_ts = Some(StartTime - 60 + 213120 * 60)
            /\ words[i].mistakes_count = 1

\* C30: ids are never reused: the id counter never goes back, every id of
\* the table is one the counter has handed out, and the cards of an import
\* get ids above every id handed out before; a button or a correction that
\* carries an id the table no longer holds is answered "not found", changes
\* no card and appends no mistakes row.
C30_IdsNeverReused ==
    [][/\ words_seq' >= words_seq
       /\ \A i \in DOMAIN words : words[i].id <= words_seq
       /\ (/\ ret'.op = "sync_words" /\ ret'.reply = "ok"
           /\ <<ret, words_seq>>' # <<ret, words_seq>>) =>
                \A i \in DOMAIN words' :
                    /\ words'[i].id > words_seq
                    /\ words'[i].id <= words_seq'
       /\ (/\ ret' # ret /\ ret'.op \in {"answer", "fix"}
           /\ ret'.word_id # 0 /\ ~HasWord(words, ret'.word_id)) =>
                /\ ret'.reply = "not_found"
                /\ UNCHANGED <<words, words_seq, mistakes>>]_vars

\* C30, reached: the user answered a card of the first deck, the deck was
\* replaced, and the correction of that answer found no card: the table
\* holds the second deck, whose ids are above those of the first.
C30_Reached ==
    /\ ret.op = "fix" /\ ret.reply = "not_found"
    /\ ret.word_id \in {1, 2}
    /\ DictGet(user_last_word, ret.user) = ret.word_id
    /\ Len(words) = 2
    /\ \A i \in DOMAIN words : words[i].id > 2
    /\ answers = 1

\* the items of a file of which the claim says that they are accepted: the
\* key writes an integer in 1..12, and the value is a non-negative integer
\* (an integer, a float without fraction or a string of digits, not below 0)
C_GoodItems(data, converted) ==
    {i \in DOMAIN data :
        /\ converted[i].lvl.raised = ""
        /\ converted[i].lvl.value \in 1..12
        /\ converted[i].minutes.raised = ""
        /\ converted[i].minutes.value >= 0
        /\ data[i].value.type = "float" => data[i].value.num % 10 = 0
        /\ data[i].value.type = "float" => data[i].value.num >= 0}

\* the table of the claim: the value of a good item for its level, the
\* default delay for a level without one
C_TableOfClaim(converted, good, table) ==
    \A lvl \in 1..12 :
        IF \E i \in good : converted[i].lvl.value = lvl
        THEN \E i \in good :
                /\ converted[i].lvl.value = lvl
                /\ table[lvl] = converted[i].minutes.value
        ELSE table[lvl] = DEFAULT_LEVEL_TO_MINUTES[lvl]

\* C24: loading a file that is a JSON object accepts exactly the items whose
\* key is an integer in 1..12 and whose value is a non-negative integer:
\* the delay of a level with such an item is the value of one of them, the
\* delay of every other level is the default one (items for the level 0 or
\* levels above 12, and values that are negative or no integers, have no
\* effect), and the delay of level 0 is the one of the default table.
C24_OverrideAcceptance ==
    (intervals_file.kind = "json"
        /\ ~LoopRaises(ConvertedItems(intervals_file.data))) =>
        /\ C_TableOfClaim(
                ConvertedItems(intervals_file.data),
                C_GoodItems(intervals_file.data,
                            ConvertedItems(intervals_file.data)),
                load_intervals_from_file(intervals_file, level_to_minutes))
        /\ progress_to_minutes(
                load_intervals_from_file(intervals_file, level_to_minutes), 0)
                = progress_to_minutes(DEFAULT_LEVEL_TO_MINUTES, 0)

C_Transition(verdict, progress) ==
    IF verdict = "know" THEN IncrementedProgress(progress)
    ELSE DecrementedProgress(progress)

C_Failures(a, b) ==
    (IF tasks[a].verdict = "dont" THEN 1 ELSE 0)
        + (IF tasks[b].verdict = "dont" THEN 1 ELSE 0)

C_RacedPair(a, b) ==
    /\ a < b
    /\ tasks[a].pc = "done"
    /\ tasks[b].pc = "done"
    /\ tasks[a].word_id = tasks[b].word_id
    /\ tasks[a].row = tasks[b].row
    /\ HasWord(words, tasks[a].word_id)
    /\ \A c \in DOMAIN tasks :
            c \notin {a, b} => tasks[c].word_id # tasks[a].word_id

C29_NoLostUpdate ==
    \A a, b \in DOMAIN tasks :
        C_RacedPair(a, b) =>
            LET card == get_word_by_id(words, tasks[a].word_id)[1]
                p0 == tasks[a].row.progress
                va == tasks[a].verdict
                vb == tasks[b].verdict
            IN  /\ card.progress \in
                        {C_Transition(vb, C_Transition(va, p0)),
                         C_Transition(va, C_Transition(vb, p0))}
                /\ card.mistakes_count =
                        tasks[a].row.mistakes_count + C_Failures(a, b)

\* two handlers read the same card at level 6, both answered "know", both
\* ended and the card stands at level 8; and a pair of one success and one
\* failure ended as well
C29_Reached ==
    /\ Len(tasks) = 2
    /\ C_RacedPair(1, 2)
    /\ tasks[1].verdict = "know"
    /\ tasks[2].verdict = "know"
    /\ tasks[1].row.progress = 6
    /\ tasks[1].result = 7
    /\ tasks[2].result = 8
    /\ get_word_by_id(words, tasks[1].word_id)[1].progress = 8

====
